---------------------------- MODULE Spec2Model ----------------------------
(***************************************************************************)
(* A model of thefuzz's scoring core: fuzz.py (the public functions) and   *)
(* _fuzz.py (the pure-python implementations on difflib.SequenceMatcher).  *)
(*                                                                         *)
(* A string is a sequence of code points (97 = "a", 32 = " ", ...); the    *)
(* Python index i of a string is the index i + 1 of the sequence.  None is *)
(* the one-element sequence <<-1>>: -1 is no code point, so no string      *)
(* equals it.                                                              *)
(*                                                                         *)
(* Every scoring operator returns a record [score, sm]: the value the      *)
(* Python function returns, and the number of SequenceMatcher objects the  *)
(* call constructed (the "aligner" invocations).                           *)
(*                                                                         *)
(* A float is kept as the exact fraction num / den it approximates, and    *)
(* each rounding of a float is modelled as the double arithmetic rounds:   *)
(* round(100 * (2.0 * M / T)) differs from the half-to-even rounding of    *)
(* 200 M / T in some of the ties (see round_percent), and the scaled       *)
(* scores of WRatio round as their exact values do.                        *)
(*                                                                         *)
(* fuzz.py binds its primitives to rapidfuzz when that package is there    *)
(* and to _fuzz.py otherwise; the model is of the second binding.  utils   *)
(* is modelled from what the specification says of it.  SequenceMatcher is *)
(* modelled as difflib computes it with isjunk = None and autojunk = True, *)
(* the "popular element" heuristic for a second sequence of 200 or more    *)
(* elements included.                                                      *)
(***************************************************************************)
EXTENDS Integers, Sequences, FiniteSets, TLC

VARIABLES s1, s2, force_ascii, full_process, fn, result

vars == <<s1, s2, force_ascii, full_process, fn, result>>

-----------------------------------------------------------------------------
(* Bounds of the model.                                                    *)

\* the longest string of SpecBasic
MaxLen == 5

\* the longest raw argument of SpecPublic
MaxRawLen == 2

\* the most tokens of a string of SpecTokens
MaxTokens == 3

\* the longest short and the longest long string of SpecW
MaxShort == 2

MaxLong == 9

\* the longest needle of SpecLong, and the length of the runs of one
\* character that pad its haystack
MaxNeedle == 2

PadLen == 100

-----------------------------------------------------------------------------
(* Generic helpers.                                                        *)

Max2(x, y) == IF x >= y THEN x ELSE y

Min2(x, y) == IF x <= y THEN x ELSE y

SetMax(S) == CHOOSE x \in S : \A y \in S : y <= x

SetMin(S) == CHOOSE x \in S : \A y \in S : x <= y

Strs(A, n) == UNION {[1..k -> A] : k \in 0..n}

\* s[lo:hi] of Python, for 0 <= lo; hi is clipped to len(s)
Slice(s, lo, hi) == SubSeq(s, lo + 1, Min2(hi, Len(s)))

None == <<-1>>

Ret(v) == [score |-> v, sm |-> 0]

-----------------------------------------------------------------------------
(* utils                                                                   *)

\* int(round(num / den)): Python 3 rounds half to even
intr(num, den) ==
    LET q == num \div den
        r == num % den
    IN  IF 2 * r > den \/ (2 * r = den /\ q % 2 = 1) THEN q + 1 ELSE q

validate_string(s) == IF s = None THEN FALSE ELSE Len(s) > 0

\* The three decorators: r is what the decorated function returns for (a, b),
\* looked at only when the guard lets the call through.
check_for_none(a, b, r) ==
    IF a = None \/ b = None THEN Ret(0) ELSE r

check_for_equivalence(a, b, r) ==
    IF a = b THEN Ret(100) ELSE r

check_empty_string(a, b, r) ==
    IF Len(a) = 0 \/ Len(b) = 0 THEN Ret(0) ELSE r

make_type_consistent(a, b) == <<a, b>>

-----------------------------------------------------------------------------
(* difflib.SequenceMatcher(None, a, b): isjunk = None, autojunk = True     *)

\* the elements of b that __chain_b removes from b2j: when b has 200 or more
\* elements, those that occur more than len(b) // 100 + 1 times
bpopular(b) ==
    IF Len(b) >= 200
    THEN {e \in {b[j] : j \in 1..Len(b)} :
              Cardinality({j \in 1..Len(b) : b[j] = e}) > (Len(b) \div 100) + 1}
    ELSE {}

RECURSIVE RunLen(_, _, _, _, _, _, _)
\* length of the common run of a[i:ahi] and b[j:bhi] from their starts, as
\* b2j finds it: an element of b in popular ends the run
RunLen(a, b, popular, i, j, ahi, bhi) ==
    IF i < ahi /\ j < bhi /\ a[i + 1] = b[j + 1] /\ b[j + 1] \notin popular
    THEN 1 + RunLen(a, b, popular, i + 1, j + 1, ahi, bhi)
    ELSE 0

RECURSIVE extend_back(_, _, _, _, _)
\* the match m = (besti, bestj, bestsize) extended by the equal elements
\* before it (no element is junk, a popular one extends the match)
extend_back(a, b, alo, blo, m) ==
    IF m[1] > alo /\ m[2] > blo /\ a[m[1]] = b[m[2]]
    THEN extend_back(a, b, alo, blo, <<m[1] - 1, m[2] - 1, m[3] + 1>>)
    ELSE m

RECURSIVE extend_forward(_, _, _, _, _)
\* and by the equal elements after it
extend_forward(a, b, ahi, bhi, m) ==
    IF m[1] + m[3] < ahi /\ m[2] + m[3] < bhi /\ a[m[1] + m[3] + 1] = b[m[2] + m[3] + 1]
    THEN extend_forward(a, b, ahi, bhi, <<m[1], m[2], m[3] + 1>>)
    ELSE m

\* the longest matching block in a[alo:ahi], b[blo:bhi]; of the longest ones
\* the one that starts earliest in a, and of those the earliest in b
\* K[i, j] is the length of the common run from a[i], b[j]; best the longest
EarliestLongest(K, best, alo, blo) ==
    IF best = 0
    THEN <<alo, blo, 0>>
    ELSE LET i == SetMin({p[1] : p \in {q \in DOMAIN K : K[q] = best}})
         IN  <<i, SetMin({p[2] : p \in {q \in DOMAIN K : q[1] = i /\ K[q] = best}}),
               best>>

LongestIn(K, alo, blo) ==
    EarliestLongest(K, SetMax({0} \cup {K[p] : p \in DOMAIN K}), alo, blo)

\* the longest run of b2j in a[alo:ahi], b[blo:bhi], popular being bpopular(b)
longest_run(a, b, popular, alo, ahi, blo, bhi) ==
    LongestIn([p \in (alo .. (ahi - 1)) \X (blo .. (bhi - 1)) |->
                   RunLen(a, b, popular, p[1], p[2], ahi, bhi)], alo, blo)

find_longest_match(a, b, alo, ahi, blo, bhi) ==
    extend_forward(a, b, ahi, bhi,
        extend_back(a, b, alo, blo,
            longest_run(a, b, bpopular(b), alo, ahi, blo, bhi)))

RECURSIVE Blocks(_, _, _, _, _, _)
\* the blocks left of the longest match m = (i, j, k), m, the blocks right of it
BlocksAround(a, b, alo, ahi, blo, bhi, m) ==
    IF m[3] = 0
    THEN <<>>
    ELSE (IF alo < m[1] /\ blo < m[2]
          THEN Blocks(a, b, alo, m[1], blo, m[2]) ELSE <<>>)
         \o <<m>> \o
         (IF m[1] + m[3] < ahi /\ m[2] + m[3] < bhi
          THEN Blocks(a, b, m[1] + m[3], ahi, m[2] + m[3], bhi) ELSE <<>>)

\* the matching blocks of a[alo:ahi], b[blo:bhi], in increasing order
Blocks(a, b, alo, ahi, blo, bhi) ==
    BlocksAround(a, b, alo, ahi, blo, bhi,
                 find_longest_match(a, b, alo, ahi, blo, bhi))

RECURSIVE Collapse(_, _)
\* adjacent blocks are merged into one
Collapse(bs, cur) ==
    IF bs = <<>>
    THEN (IF cur[3] > 0 THEN <<cur>> ELSE <<>>)
    ELSE LET n == Head(bs)
         IN  IF cur[1] + cur[3] = n[1] /\ cur[2] + cur[3] = n[2]
             THEN Collapse(Tail(bs), <<cur[1], cur[2], cur[3] + n[3]>>)
             ELSE (IF cur[3] > 0 THEN <<cur>> ELSE <<>>) \o Collapse(Tail(bs), n)

\* the blocks end with the sentinel (len(a), len(b), 0)
get_matching_blocks(a, b) ==
    Collapse(Blocks(a, b, 0, Len(a), 0, Len(b)), <<0, 0, 0>>)
        \o <<(<<Len(a), Len(b), 0>>)>>

RECURSIVE SumSizes(_)
SumSizes(bs) == IF bs = <<>> THEN 0 ELSE Head(bs)[3] + SumSizes(Tail(bs))

\* SequenceMatcher.ratio() = 2.0 * matches / (len(a) + len(b)), 1.0 when both
\* are empty: the fraction <<numerator, denominator>>
sm_ratio(a, b) ==
    IF Len(a) + Len(b) = 0
    THEN <<1, 1>>
    ELSE <<2 * SumSizes(get_matching_blocks(a, b)), Len(a) + Len(b)>>


-----------------------------------------------------------------------------
(* _fuzz.py: basic scoring functions                                       *)

\* 100 * r for the float r = k / 200.0, k odd, is a tie n + 1/2 (k = 2n + 1)
\* in exact arithmetic; the double product is below the tie for the k of
\* TieBelow, above it for the k of TieAbove, and the tie itself otherwise
TieBelow == {29, 57, 113, 115}

TieAbove == {7, 55, 109, 111}

\* round(100 * r) when 100 r is the tie n + 1/2
tie_round(n) ==
    IF (2 * n + 1) \in TieBelow THEN n
    ELSE IF (2 * n + 1) \in TieAbove THEN n + 1
    ELSE intr(2 * n + 1, 2)

\* utils.intr(100 * r) for the float r = num / den of a SequenceMatcher
\* ratio: off a tie the double rounds as the fraction does
round_percent(num, den) ==
    IF 2 * ((100 * num) % den) = den
    THEN tie_round((100 * num) \div den)
    ELSE intr(100 * num, den)

\* the decorated body of ratio: one SequenceMatcher on the full strings
\* utils.intr(100 * r) of the ratio r of one SequenceMatcher
percent(r) == [score |-> round_percent(r[1], r[2]), sm |-> 1]

ratio_consistent(t) == percent(sm_ratio(t[1], t[2]))

\* ratio's body with the matches taken over the first string alone
ratio_body_first_only(a, b) ==
    [score |-> intr(100 * sm_ratio(a, b)[1], Len(a)), sm |-> 1]

ratio_body(a, b) == ratio_consistent(make_type_consistent(a, b))

\* ratio with its two decorators in the other order: the empty check first
ratio_empty_first(a, b) ==
    check_empty_string(a, b, check_for_equivalence(a, b, ratio_body(a, b)))

_ratio(a, b) ==
    check_for_equivalence(a, b, check_empty_string(a, b, ratio_body(a, b)))

\* the start in longer of the window that aligns a block with shorter
long_start(block) ==
    IF block[2] - block[1] > 0 THEN block[2] - block[1] ELSE 0

\* r > .995: the double of a fraction r is above the double .995 exactly when
\* r is above 199 / 200
IsFullMatch(r) == 1000 * r[1] > 995 * r[2]

FracMax(x, y) == IF x[1] * y[2] >= y[1] * x[2] THEN x ELSE y

RECURSIVE partial_loop(_, _, _, _, _)
\* partial_loop is the loop over the blocks: best is max(scores) so far (<<-1, 1>>: no score
\* yet), n the number of SequenceMatcher objects constructed so far
\* one turn of the loop, r the ratio of shorter and the block's window
partial_step(shorter, longer, blocks, best, n, r) ==
    IF IsFullMatch(r)
    THEN [score |-> 100, sm |-> n + 1]
    ELSE partial_loop(shorter, longer, Tail(blocks), FracMax(best, r), n + 1)

\* longer[long_start:long_end]
long_substr(shorter, longer, start) == Slice(longer, start, start + Len(shorter))

partial_loop(shorter, longer, blocks, best, n) ==
    IF blocks = <<>>
    THEN [score |-> round_percent(best[1], best[2]), sm |-> n]
    ELSE partial_step(shorter, longer, blocks, best, n,
                      sm_ratio(shorter,
                               long_substr(shorter, longer, long_start(Head(blocks)))))

\* the loop on the blocks of SequenceMatcher(None, shorter, longer)
partial_blocks(shorter, longer) ==
    partial_loop(shorter, longer, get_matching_blocks(shorter, longer), <<-1, 1>>, 1)

partial_consistent(t) ==
    IF Len(t[1]) <= Len(t[2])
    THEN partial_blocks(t[1], t[2])
    ELSE partial_blocks(t[2], t[1])

partial_ratio_body(a, b) == partial_consistent(make_type_consistent(a, b))

_partial_ratio(a, b) ==
    check_for_equivalence(a, b, check_empty_string(a, b, partial_ratio_body(a, b)))

-----------------------------------------------------------------------------
(* Python str methods the token functions use                              *)

\* str.isspace() of one character
IsSpace(c) ==
    c \in {9, 10, 11, 12, 13, 28, 29, 30, 31, 32, 133, 160, 5760}
              \cup (8192 .. 8202) \cup {8232, 8233, 8239, 8287, 12288}

RECURSIVE split_from(_, _, _)
\* s.split() from index i on, cur the token being read
split_from(s, i, cur) ==
    IF i > Len(s)
    THEN (IF cur = <<>> THEN <<>> ELSE <<cur>>)
    ELSE IF IsSpace(s[i])
         THEN (IF cur = <<>> THEN <<>> ELSE <<cur>>) \o split_from(s, i + 1, <<>>)
         ELSE split_from(s, i + 1, Append(cur, s[i]))

split(s) == split_from(s, 1, <<>>)

RECURSIVE join(_)
\* " ".join(tokens)
join(tokens) ==
    IF tokens = <<>> THEN <<>>
    ELSE IF Len(tokens) = 1 THEN tokens[1]
    ELSE tokens[1] \o <<32>> \o join(Tail(tokens))

RECURSIVE strip(_)
strip(s) ==
    IF s = <<>> THEN s
    ELSE IF IsSpace(s[1]) THEN strip(Tail(s))
    ELSE IF IsSpace(s[Len(s)]) THEN strip(SubSeq(s, 1, Len(s) - 1))
    ELSE s

RECURSIVE StrLess(_, _)
\* x < y of two Python strings: by code point, a proper prefix first
StrLess(x, y) ==
    IF y = <<>> THEN FALSE
    ELSE IF x = <<>> THEN TRUE
    ELSE IF x[1] # y[1] THEN x[1] < y[1]
    ELSE StrLess(Tail(x), Tail(y))

\* sorted(tokens) of a list
sorted(tokens) == SortSeq(tokens, StrLess)

RECURSIVE sorted_set(_)
\* sorted(S) of a set of strings
sorted_set(S) ==
    IF S = {} THEN <<>>
    ELSE LET m == CHOOSE x \in S : \A y \in S : x = y \/ StrLess(x, y)
         IN  <<m>> \o sorted_set(S \ {m})

\* set(s.split())
token_set_of(s) == LET t == split(s) IN {t[i] : i \in 1..Len(t)}

-----------------------------------------------------------------------------
(* _fuzz.py: advanced scoring functions                                    *)

_sort_tokens(s) == strip(join(sorted(split(s))))

\* partial_ratio if partial, else ratio
ratio_func(partial, x, y) ==
    IF partial THEN _partial_ratio(x, y) ELSE _ratio(x, y)

_token_sort(a, b, partial) ==
    ratio_func(partial, _sort_tokens(a), _sort_tokens(b))

_token_sort_ratio(a, b) == _token_sort(a, b, FALSE)

_partial_token_sort_ratio(a, b) == _token_sort(a, b, TRUE)

\* _token_set with the first validation test inverted
token_set_valid_is_zero(a, b, partial) ==
    IF a = b THEN Ret(100)
    ELSE IF validate_string(a) THEN Ret(0)
    ELSE Ret(0)

\* max(pairwise) of the three scores
max_pairwise(p1, p2, p3) ==
    [score |-> SetMax({p1.score, p2.score, p3.score}),
     sm |-> p1.sm + p2.sm + p3.sm]

\* the three comparisons of the stripped strings
pairwise(partial, sorted_sect, combined_1to2, combined_2to1) ==
    max_pairwise(ratio_func(partial, sorted_sect, combined_1to2),
                 ratio_func(partial, sorted_sect, combined_2to1),
                 ratio_func(partial, combined_1to2, combined_2to1))

\* sorted_sect, sorted_1to2 and sorted_2to1 are the joined sorted tokens
combined(partial, sorted_sect, sorted_1to2, sorted_2to1) ==
    pairwise(partial, strip(sorted_sect),
             strip(sorted_sect \o <<32>> \o sorted_1to2),
             strip(sorted_sect \o <<32>> \o sorted_2to1))

token_sets(partial, tokens1, tokens2) ==
    combined(partial, join(sorted_set(tokens1 \cap tokens2)),
             join(sorted_set(tokens1 \ tokens2)),
             join(sorted_set(tokens2 \ tokens1)))

_token_set(a, b, partial) ==
    IF a = b THEN Ret(100)
    ELSE IF ~validate_string(a) THEN Ret(0)
    ELSE IF ~validate_string(b) THEN Ret(0)
    ELSE token_sets(partial, token_set_of(a), token_set_of(b))

_token_set_ratio(a, b) == _token_set(a, b, FALSE)

_partial_token_set_ratio(a, b) == _token_set(a, b, TRUE)

\* the token discount left out: a scale of 1.0
unbase_scale_none == 95 + 5

\* partial_scale with the test len_ratio >= 8
partial_scale_from_8(a, b) ==
    IF Max2(Len(a), Len(b)) >= 8 * Min2(Len(a), Len(b)) THEN 60 ELSE 90

\* The scales are hundredths (.95, .90, .6), and every candidate of the
\* final max() is a number of ten-thousandths.
unbase_scale == 95

\* should we look at partials?  False when len_ratio < 1.5
try_partial(a, b) ==
    ~(2 * Max2(Len(a), Len(b)) < 3 * Min2(Len(a), Len(b)))

\* .6 when len_ratio > 8, the one string much much shorter than the other
partial_scale(a, b) ==
    IF Max2(Len(a), Len(b)) > 8 * Min2(Len(a), Len(b)) THEN 60 ELSE 90

\* utils.intr(max(base, partial, ptsor, ptser)), scale being partial_scale
with_partials(base, partial, ptsor, ptser, scale) ==
    [score |-> intr(SetMax({base.score * 10000,
                            partial.score * scale * 100,
                            ptsor.score * unbase_scale * scale,
                            ptser.score * unbase_scale * scale}), 10000),
     sm |-> base.sm + partial.sm + ptsor.sm + ptser.sm]

\* utils.intr(max(base, tsor, tser))
without_partials(base, tsor, tser) ==
    [score |-> intr(SetMax({base.score * 10000,
                            tsor.score * unbase_scale * 100,
                            tser.score * unbase_scale * 100}), 10000),
     sm |-> base.sm + tsor.sm + tser.sm]

_WRatio(a, b) ==
    IF ~validate_string(a) THEN Ret(0)
    ELSE IF ~validate_string(b) THEN Ret(0)
    ELSE IF try_partial(a, b)
         THEN with_partials(_ratio(a, b), _partial_ratio(a, b),
                            _partial_token_sort_ratio(a, b),
                            _partial_token_set_ratio(a, b), partial_scale(a, b))
         ELSE without_partials(_ratio(a, b), _token_sort_ratio(a, b),
                               _token_set_ratio(a, b))

-----------------------------------------------------------------------------
(* utils.full_process                                                      *)

\* str(s): the display representation; None gives "None"
to_str(s) == IF s = None THEN <<78, 111, 110, 101>> ELSE s

\* a letter or a digit; a code point above 127 stands for a letter
IsAlnum(c) == c \in 48..57 \/ c \in 65..90 \/ c \in 97..122 \/ c > 127

lower(c) == IF c \in 65..90 THEN c + 32 ELSE c

RECURSIVE collapse_spaces(_)
\* runs of whitespace become one space
collapse_spaces(s) ==
    IF Len(s) < 2 THEN s
    ELSE IF IsSpace(s[1]) /\ IsSpace(s[2]) THEN collapse_spaces(Tail(s))
    ELSE <<s[1]>> \o collapse_spaces(Tail(s))

IsPrintableAscii(c) == c \in 32..126

\* only the printable ASCII characters, when force_ascii
ascii_only(s, fa) == IF fa THEN SelectSeq(s, IsPrintableAscii) ELSE s

\* every character that is no letter or digit becomes a space
spaced(s) == [i \in 1..Len(s) |-> IF IsAlnum(s[i]) THEN s[i] ELSE 32]

lowered(s) == [i \in 1..Len(s) |-> lower(s[i])]

utils_full_process(s, fa) ==
    lowered(strip(collapse_spaces(spaced(ascii_only(to_str(s), fa)))))

-----------------------------------------------------------------------------
(* fuzz.py: the public functions                                           *)

\* utils.intr(...) of the score an implementation returned
intr_of(r) == [score |-> intr(r.score, 1), sm |-> r.sm]

ratio(a, b) == check_for_none(a, b, intr_of(_ratio(a, b)))

partial_ratio(a, b) ==
    check_for_none(a, b, intr_of(_partial_ratio(a, b)))

\* utils.full_process(s, force_ascii=fa) if full_process else s
processed(s, fa, fp) == IF fp THEN utils_full_process(s, fa) ELSE s

token_sort_ratio(a, b, fa, fp) ==
    check_for_none(a, b,
        intr_of(_token_sort_ratio(processed(a, fa, fp), processed(b, fa, fp))))

partial_token_sort_ratio(a, b, fa, fp) ==
    check_for_none(a, b,
        intr_of(_partial_token_sort_ratio(processed(a, fa, fp), processed(b, fa, fp))))

token_set_ratio(a, b, fa, fp) ==
    check_for_none(a, b,
        intr_of(_token_set_ratio(processed(a, fa, fp), processed(b, fa, fp))))

partial_token_set_ratio(a, b, fa, fp) ==
    check_for_none(a, b,
        intr_of(_partial_token_set_ratio(processed(a, fa, fp), processed(b, fa, fp))))

\* QRatio without its two validation tests
QRatio_unvalidated(a, b, fa, fp) ==
    ratio(processed(a, fa, fp), processed(b, fa, fp))

\* QRatio after the processing of its arguments
QRatio_processed(p1, p2) ==
    IF ~validate_string(p1) THEN Ret(0)
    ELSE IF ~validate_string(p2) THEN Ret(0)
    ELSE ratio(p1, p2)

QRatio(a, b, fa, fp) ==
    QRatio_processed(processed(a, fa, fp), processed(b, fa, fp))

UQRatio(a, b, fp) == QRatio(a, b, FALSE, fp)

WRatio(a, b, fa, fp) ==
    intr_of(_WRatio(processed(a, fa, fp), processed(b, fa, fp)))

UWRatio(a, b, fp) == WRatio(a, b, FALSE, fp)

-----------------------------------------------------------------------------
(* The calls.  One call is made of the inputs drawn by Init; fn names the  *)
(* function called ("none" before the call) and result is what it returned *)

NoResult == [score |-> -1, sm |-> 0]

Called(f, r) ==
    /\ fn = "none"
    /\ fn' = f
    /\ result' = r
    /\ UNCHANGED <<s1, s2, force_ascii, full_process>>

Call_ratio_impl == Called("_ratio", _ratio(s1, s2))

Call_partial_ratio_impl == Called("_partial_ratio", _partial_ratio(s1, s2))

Call_token_sort_ratio_impl ==
    Called("_token_sort_ratio", _token_sort_ratio(s1, s2))

Call_partial_token_sort_ratio_impl ==
    Called("_partial_token_sort_ratio", _partial_token_sort_ratio(s1, s2))

Call_token_set_ratio_impl ==
    Called("_token_set_ratio", _token_set_ratio(s1, s2))

Call_partial_token_set_ratio_impl ==
    Called("_partial_token_set_ratio", _partial_token_set_ratio(s1, s2))

Call_WRatio_impl == Called("_WRatio", _WRatio(s1, s2))

Call_ratio == Called("ratio", ratio(s1, s2))

Call_partial_ratio == Called("partial_ratio", partial_ratio(s1, s2))

Call_token_sort_ratio ==
    Called("token_sort_ratio", token_sort_ratio(s1, s2, force_ascii, full_process))

Call_partial_token_sort_ratio ==
    Called("partial_token_sort_ratio",
           partial_token_sort_ratio(s1, s2, force_ascii, full_process))

Call_token_set_ratio ==
    Called("token_set_ratio", token_set_ratio(s1, s2, force_ascii, full_process))

Call_partial_token_set_ratio ==
    Called("partial_token_set_ratio",
           partial_token_set_ratio(s1, s2, force_ascii, full_process))

Call_QRatio == Called("QRatio", QRatio(s1, s2, force_ascii, full_process))

Call_UQRatio == Called("UQRatio", UQRatio(s1, s2, full_process))

Call_WRatio == Called("WRatio", WRatio(s1, s2, force_ascii, full_process))

Call_UWRatio == Called("UWRatio", UWRatio(s1, s2, full_process))

Fresh ==
    /\ fn = "none"
    /\ result = NoResult

-----------------------------------------------------------------------------
(* SpecBasic: the basic functions of _fuzz.py on every pair of strings     *)
(* over {a, b}                                                             *)

BasicStrs == Strs({97, 98}, MaxLen)

InitBasic ==
    /\ s1 \in BasicStrs
    /\ s2 \in BasicStrs
    /\ force_ascii = TRUE
    /\ full_process = FALSE
    /\ Fresh

NextBasic == Call_ratio_impl \/ Call_partial_ratio_impl

SpecBasic == InitBasic /\ [][NextBasic]_vars

-----------------------------------------------------------------------------
(* SpecPublic: the ten public functions of fuzz.py on raw arguments: None, *)
(* a string over {"A", "n", "!", "e-acute"} or a string over {"n", " "},   *)
(* under every choice of the two flags                                     *)

RawValues ==
    {None} \cup Strs({65, 110, 33, 233}, MaxRawLen) \cup Strs({110, 32}, MaxRawLen)

InitPublic ==
    /\ s1 \in RawValues
    /\ s2 \in RawValues
    /\ force_ascii \in BOOLEAN
    /\ full_process \in BOOLEAN
    /\ Fresh

NextPublic ==
    \/ Call_ratio
    \/ Call_partial_ratio
    \/ Call_token_sort_ratio
    \/ Call_partial_token_sort_ratio
    \/ Call_token_set_ratio
    \/ Call_partial_token_set_ratio
    \/ Call_QRatio
    \/ Call_UQRatio
    \/ Call_WRatio
    \/ Call_UWRatio

SpecPublic == InitPublic /\ [][NextPublic]_vars

-----------------------------------------------------------------------------
(* SpecTokens: the token functions and WRatio of _fuzz.py on processed     *)
(* strings: up to MaxTokens tokens out of "a", "b", "ab", joined by single *)
(* spaces                                                                  *)

Tokens == {<<97>>, <<98>>, <<97, 98>>}

TokenStrs == {join(ts) : ts \in Strs(Tokens, MaxTokens)}

InitTokens ==
    /\ s1 \in TokenStrs
    /\ s2 \in TokenStrs
    /\ force_ascii = TRUE
    /\ full_process = FALSE
    /\ Fresh

NextTokens ==
    \/ Call_ratio_impl
    \/ Call_token_sort_ratio_impl
    \/ Call_partial_token_sort_ratio_impl
    \/ Call_token_set_ratio_impl
    \/ Call_partial_token_set_ratio_impl
    \/ Call_WRatio_impl

SpecTokens == InitTokens /\ [][NextTokens]_vars

-----------------------------------------------------------------------------
(* SpecW: WRatio of _fuzz.py on a short and a long string over {"a", " "}, *)
(* in both argument orders                                                 *)

InitW ==
    /\ \E x \in Strs({97, 32}, MaxShort), y \in Strs({97, 32}, MaxLong) :
           \/ s1 = x /\ s2 = y
           \/ s1 = y /\ s2 = x
    /\ force_ascii = TRUE
    /\ full_process = FALSE
    /\ Fresh

NextW == Call_WRatio_impl

SpecW == InitW /\ [][NextW]_vars

-----------------------------------------------------------------------------
(* SpecLong: the basic functions of _fuzz.py on a needle of up to          *)
(* MaxNeedle characters and a haystack "b...b" + middle + "a...a" whose    *)
(* two runs are empty, one character or PadLen characters long, in both    *)
(* argument orders: with both runs the haystack has 200 characters or more *)

Rep(c, n) == [i \in 1..n |-> c]

PadLens == {0, 1, PadLen}

Needles == Strs({97, 98}, MaxNeedle) \ {<<>>}

Haystacks ==
    {Rep(98, m) \o mid \o Rep(97, n) :
         m \in PadLens, mid \in Strs({97, 98}, 2), n \in PadLens}

InitLong ==
    /\ \E x \in Needles, y \in Haystacks :
           \/ s1 = x /\ s2 = y
           \/ s1 = y /\ s2 = x
    /\ force_ascii = TRUE
    /\ full_process = FALSE
    /\ Fresh

NextLong == Call_ratio_impl \/ Call_partial_ratio_impl

SpecLong == InitLong /\ [][NextLong]_vars

-----------------------------------------------------------------------------
(* Claims about the basic functions, under SpecBasic and SpecLong          *)

\* the shorter and the longer argument as partial_ratio chooses them
ShorterOf(a, b) == IF Len(a) <= Len(b) THEN a ELSE b

LongerOf(a, b) == IF Len(a) <= Len(b) THEN b ELSE a

\* the rounded ratio of shorter against one window, above .995 counted as 100
WindowScore(shorter, window) ==
    LET r == sm_ratio(shorter, window)
    IN  IF IsFullMatch(r) THEN 100 ELSE round_percent(r[1], r[2])

\* the best score over every window of longer of the length of shorter
AllWindowsBest(a, b) ==
    LET sh == ShorterOf(a, b)
        lo == LongerOf(a, b)
    IN  SetMax({WindowScore(sh, Slice(lo, p, p + Len(sh))) :
                    p \in 0 .. (Len(lo) - Len(sh))})

\* the best score over the windows the matching blocks (the final sentinel
\* included) align: from max(j - i, 0), len(shorter) long, cut at longer's end
BlockWindowsBest(a, b) ==
    LET sh == ShorterOf(a, b)
        lo == LongerOf(a, b)
        bs == get_matching_blocks(sh, lo)
        at(n) == Max2(bs[n][2] - bs[n][1], 0)
    IN  SetMax({WindowScore(sh, Slice(lo, at(n), at(n) + Len(sh))) :
                    n \in 1 .. Len(bs)})

IsSubstring(sh, lo) ==
    \E p \in 0 .. (Len(lo) - Len(sh)) : Slice(lo, p, p + Len(sh)) = sh

\* C2: ratio is symmetric: ratio(s1, s2) = ratio(s2, s1) for all strings.
C2_RatioSymmetric ==
    fn = "_ratio" => result.score = _ratio(s2, s1).score

\* C3: partial_ratio of two non-empty strings is the best ratio over all the
\* windows of the longer string that have the length of the shorter.
C3_AllWindows ==
    (fn = "_partial_ratio" /\ s1 # <<>> /\ s2 # <<>>)
        => result.score = AllWindowsBest(s1, s2)

\* What partial_ratio computes instead: the best ratio over the block-aligned
\* windows only, each cut at the end of the longer string.
PartialRatioIsBlockWindowsBest ==
    (fn = "_partial_ratio" /\ s1 # <<>> /\ s2 # <<>>)
        => result.score = BlockWindowsBest(s1, s2)

\* C4: when the shorter (or equally long) string is non-empty and a
\* contiguous substring of the other, partial_ratio is 100, in either order.
C4_SubstringIs100 ==
    (/\ fn = "_partial_ratio"
     /\ ShorterOf(s1, s2) # <<>>
     /\ \/ IsSubstring(ShorterOf(s1, s2), LongerOf(s1, s2))
        \/ IsSubstring(ShorterOf(s2, s1), LongerOf(s2, s1)))
        => result.score = 100

\* What holds of a contained string instead: partial_ratio is 100 when the
\* longer string has no popular element, so whenever it is shorter than 200.
SubstringIs100WithoutPopular ==
    (/\ fn = "_partial_ratio"
     /\ ShorterOf(s1, s2) # <<>>
     /\ IsSubstring(ShorterOf(s1, s2), LongerOf(s1, s2))
     /\ bpopular(LongerOf(s1, s2)) = {})
        => result.score = 100

\* C6: ratio and partial_ratio return 100 for equal inputs (both empty
\* included), otherwise 0 when either input is empty, and in both cases no
\* SequenceMatcher is constructed.
C6_GuardOrder ==
    (fn \in {"_ratio", "_partial_ratio"})
        => /\ s1 = s2 => (result.score = 100 /\ result.sm = 0)
           /\ (s1 # s2 /\ (s1 = <<>> \/ s2 = <<>>))
                  => (result.score = 0 /\ result.sm = 0)

\* C6's case: both inputs empty, so both guards apply and the first one wins
C6_Witness ==
    /\ fn = "_ratio"
    /\ s1 = <<>> /\ s2 = <<>>
    /\ result.score = 100
    /\ result.sm = 0

-----------------------------------------------------------------------------
(* Claims about the public functions, under SpecPublic                     *)

PublicNames ==
    {"ratio", "partial_ratio", "token_sort_ratio", "partial_token_sort_ratio",
     "token_set_ratio", "partial_token_set_ratio", "QRatio", "UQRatio",
     "WRatio", "UWRatio"}

TokenFamily ==
    {"token_sort_ratio", "partial_token_sort_ratio",
     "token_set_ratio", "partial_token_set_ratio"}

\* the string the called function hands on for the argument s
Preprocessed(s) ==
    processed(s, IF fn \in {"UQRatio", "UWRatio"} THEN FALSE ELSE force_ascii,
              full_process)

\* C1: a public function called with None as first or second argument
\* returns 0, decided before any preprocessing (so without the aligner).
C1_NoneIsZero ==
    (fn \in PublicNames /\ (s1 = None \/ s2 = None))
        => (result.score = 0 /\ result.sm = 0)

\* C5 as claimed: when the preprocessed form of either argument is empty,
\* QRatio, WRatio and the four token functions return 0 without the
\* aligner, also when both are empty.
C5_EmptyIsZero ==
    (/\ fn \in {"QRatio", "WRatio"} \cup TokenFamily
     /\ (Preprocessed(s1) = <<>> \/ Preprocessed(s2) = <<>>))
        => (result.score = 0 /\ result.sm = 0)

SortFamily == {"token_sort_ratio", "partial_token_sort_ratio"}

SetFamily == {"token_set_ratio", "partial_token_set_ratio"}

\* C5 as amended: in that case no aligner runs, and the result is 0 with two
\* exceptions: the two token-sort functions return 100 when neither
\* preprocessed string has a token (the other being empty or whitespace
\* only), and the two token-set functions return 100 when both preprocessed
\* strings are empty.
C5_EmptyIsZeroUnlessNoTokens ==
    (/\ fn \in {"QRatio", "WRatio"} \cup TokenFamily
     /\ (Preprocessed(s1) = <<>> \/ Preprocessed(s2) = <<>>))
        => /\ result.sm = 0
           /\ result.score =
                 IF \/ /\ fn \in SortFamily
                       /\ split(Preprocessed(s1)) = <<>>
                       /\ split(Preprocessed(s2)) = <<>>
                    \/ /\ fn \in SetFamily
                       /\ Preprocessed(s1) = Preprocessed(s2)
                 THEN 100 ELSE 0

\* C5's case: exactly one string is empty as handed on, the other is
\* whitespace only, and a token-sort function compares their (empty) sorted
\* tokens as equal
C5_Witness ==
    /\ fn = "token_sort_ratio"
    /\ ~full_process
    /\ s1 = <<>>
    /\ s2 # None /\ s2 # <<>>
    /\ split(s2) = <<>>
    /\ result.score = 100
    /\ result.sm = 0

\* C8: every public function returns a score within 0..100.
C8_ScoreInRange ==
    fn \in PublicNames => result.score \in 0..100

\* C8's case: two non-empty strings with no common character
C8_Witness ==
    /\ fn = "partial_ratio"
    /\ s1 # None /\ s2 # None
    /\ Len(s1) = 2 /\ Len(s2) = 1
    /\ \A i \in 1..Len(s1) : s1[i] # s2[1]
    /\ result.score = 0
    /\ result.sm = 2

-----------------------------------------------------------------------------
(* Claims about the token functions and WRatio                             *)

RECURSIVE Count(_, _)
\* the number of occurrences of the token t in the list ts
Count(t, ts) ==
    IF ts = <<>> THEN 0
    ELSE (IF Head(ts) = t THEN 1 ELSE 0) + Count(t, Tail(ts))

\* y is the tokens of x in some order plus extra copies of some of them
ReorderedWithDuplicates(x, y) ==
    /\ token_set_of(x) = token_set_of(y)
    /\ \A t \in token_set_of(x) : Count(t, split(x)) <= Count(t, split(y))

\* C7: WRatio of two valid strings is 100 only when their ratio is 100; the
\* partial and token scores can lift the result to 95 at most, above that
\* it is the ratio.
C7_FullMatchOnly ==
    (fn = "_WRatio" /\ validate_string(s1) /\ validate_string(s2))
        => /\ result.score = 100 => _ratio(s1, s2).score = 100
           /\ result.score <= Max2(_ratio(s1, s2).score, 95)

\* C7's case: the token-sorted strings match fully, the strings do not
C7_Witness ==
    /\ fn = "_WRatio"
    /\ validate_string(s1) /\ validate_string(s2)
    /\ _token_sort_ratio(s1, s2).score = 100
    /\ _ratio(s1, s2).score < 100
    /\ result.score = 95

\* C9: for two non-empty strings of which one is the other's tokens
\* reordered plus extra duplicates, token_set_ratio >= token_sort_ratio.
C9_SetAtLeastSort ==
    (/\ fn = "_token_set_ratio"
     /\ s1 # <<>> /\ s2 # <<>>
     /\ (ReorderedWithDuplicates(s1, s2) \/ ReorderedWithDuplicates(s2, s1)))
        => result.score >= _token_sort_ratio(s1, s2).score

\* C9's case: two tokens, in another order and one of them doubled, which
\* the sorted comparison penalises
C9_Witness ==
    /\ fn = "_token_set_ratio"
    /\ ReorderedWithDuplicates(s1, s2)
    /\ Cardinality(token_set_of(s1)) = 2
    /\ Len(split(s2)) > Len(split(s1))
    /\ split(s1)[1] # split(s2)[1]
    /\ _token_sort_ratio(s1, s2).score < 100
    /\ result.score = 100

\* max(...) rounded, the candidates given in ten-thousandths
RoundMax(S) == intr(SetMax(S), 10000)

\* C10: for valid strings, with len_ratio = max(len) / min(len): below 1.5
\* WRatio is round(max(ratio, .95 token_sort, .95 token_set)) and no partial
\* function runs; from 1.5 on it is round(max(ratio, p partial_ratio,
\* .95 p partial_token_sort, .95 p partial_token_set)) with p = .6 above 8
\* and .9 up to 8.
C10_LengthPolicy ==
    (fn = "_WRatio" /\ validate_string(s1) /\ validate_string(s2))
        => LET hi == Max2(Len(s1), Len(s2))
               lo == Min2(Len(s1), Len(s2))
               p == IF hi > 8 * lo THEN 60 ELSE 90
               base == _ratio(s1, s2)
               tsor == _token_sort_ratio(s1, s2)
               tser == _token_set_ratio(s1, s2)
               part == _partial_ratio(s1, s2)
               ptsor == _partial_token_sort_ratio(s1, s2)
               ptser == _partial_token_set_ratio(s1, s2)
           IN  IF 2 * hi < 3 * lo
               THEN /\ result.score = RoundMax({10000 * base.score,
                                                9500 * tsor.score,
                                                9500 * tser.score})
                    /\ result.sm = base.sm + tsor.sm + tser.sm
               ELSE result.score = RoundMax({10000 * base.score,
                                             100 * p * part.score,
                                             95 * p * ptsor.score,
                                             95 * p * ptser.score})

\* C10's case: len_ratio is exactly 8, so the scale is still .9
C10_Witness ==
    /\ fn = "_WRatio"
    /\ validate_string(s1) /\ validate_string(s2)
    /\ s1 = <<97>>
    /\ Len(s2) = 8 * Len(s1)
    /\ _partial_ratio(s1, s2).score = 100
    /\ result.score = 90

=============================================================================
